---- MODULE Spec2Model ----
(***************************************************************************)
(* Wildfire destruction prediction: the training flow (WildfireFlow, steps *)
(* start / train / end) and the scenario app (load_model, encode_feature,  *)
(* predict_destruction, main).                                             *)
(*                                                                         *)
(* A table is kept up to row order: a function from row kinds to the       *)
(* number of rows of that kind.  Library calls (duckdb, pandas, sklearn,   *)
(* streamlit) are modelled by what the pinned versions do.                 *)
(***************************************************************************)
EXTENDS Integers, Sequences, FiniteSets, TLC

VARIABLES
    wfdata,       \* the registered "wildfires" table of the flow run
    incidents,    \* the incident columns of the table's rows: start date, latitude, longitude
    step,         \* position of the flow run: start, train, end, done, failed
    self,         \* the artifacts the flow run has assigned (name -> value)
    locals,       \* the train step's local variables that were assigned
    entropy,      \* state of numpy's global generator in the process running the step
    previous,     \* what an earlier run on the same data ended with, if there was one
    runs,         \* number of WildfireFlow runs the metadata service knows
    latest_run,   \* Flow("WildfireFlow").latest_successful_run: None or a run
    cache,        \* st.cache_resource of load_model: no entry, or the tuple returned
    load_path,    \* how the last execution of load_model's body ended
    session_state,\* st.session_state of the browser session
    page,         \* how the last script run of main ended
    loaded,       \* the tuple load_model's body returned, as it was on return
    selected_county,     \* the value of the "Choose a county:" selectbox
    last_object_clicked, \* the value the map component returns: None or a point
    rerun_count,  \* script runs in a row that st.rerun() started
    call          \* the last call of predict_destruction from outside main: features, X, proba

flowVars == <<wfdata, incidents, step, self, locals, entropy, previous>>
appVars == <<runs, latest_run, cache, load_path, session_state, page, loaded,
            selected_county, last_object_clicked, rerun_count, call>>
vars == <<wfdata, incidents, step, self, locals, entropy, previous,
          runs, latest_run, cache, load_path, session_state, page, loaded,
          selected_county, last_object_clicked, rerun_count, call>>

(***************************************************************************)
(* Bounds of the model                                                     *)
(***************************************************************************)
\* largest number of rows of one kind in a table
MaxCount == 20
\* number of rows of each kind present in a table the app's runs are trained on
AppCount == 3
\* largest number of flow runs while the app is up
MaxRuns == 2
\* the global generator of a process starts in one of the states 0..MaxEntropy
MaxEntropy == 1
\* largest number of rows of a table the incident card is rendered from
MaxIncidents == 3
\* largest number of script runs in a row that st.rerun() starts
MaxReruns == 3

(***************************************************************************)
(* Values                                                                  *)
(***************************************************************************)
\* SQL NULL / pandas missing value
NULL == "<null>"
\* the outcome of a call that may raise: a value, or the exception ValueError
Ok(v) == [raised |-> FALSE, value |-> v]
ValueError == [raised |-> TRUE, value |-> "ValueError"]
\* an artifact or local that was never assigned
Unset == "<unset>"
\* Python's None
None == [none |-> TRUE]
\* raised on iterating or calling None
TypeError == [raised |-> TRUE, value |-> "TypeError"]

DESTROYED == "Destroyed (>50%)"
INACCESSIBLE == "Inaccessible"
NO_DAMAGE == "No Damage"

\* The labels of the model's universe, in the order numpy sorts strings
\* (by code point): "Metal" < "Tile" < "Unknown" < "Wood".
Vocabulary == <<"Metal", "Tile", "Unknown", "Wood">>

feature_cols ==
    << "structure_type", "structure_category", "roof_construction", "eaves",
       "vent_screen", "exterior_siding", "window_pane", "deck_on_grade",
       "deck_elevated", "patio_cover", "fence_attached", "county" >>

Range(s) == {s[i] : i \in DOMAIN s}

Cols == Range(feature_cols)

\* the columns at odd positions of feature_cols (structure_type, roof_construction, ...)
OddCols == {feature_cols[i] : i \in {j \in DOMAIN feature_cols : j % 2 = 1}}

\* A row of the table: damage, and every odd column holding a, every even column b.
Row(d, a, b) ==
    [damage |-> d, vals |-> [c \in Cols |-> IF c \in OddCols THEN a ELSE b]]

\* The row kinds tables are made of, in table order.
KindSeq ==
    << Row(DESTROYED, "Wood", "Wood"),
       Row(NO_DAMAGE, "Metal", "Wood"),
       Row(DESTROYED, NULL, "Metal"),
       Row(NO_DAMAGE, "Unknown", "Metal"),
       Row(INACCESSIBLE, "Tile", "Tile"),
       Row(NULL, "Wood", NULL) >>

Kinds == Range(KindSeq)

RECURSIVE Sum(_, _)
Sum(f, S) ==
    IF S = {} THEN 0
    ELSE LET x == CHOOSE y \in S : TRUE IN f[x] + Sum(f, S \ {x})

Min(a, b) == IF a < b THEN a ELSE b
Max(a, b) == IF a > b THEN a ELSE b

(***************************************************************************)
(* train: query, target, encoders                                          *)
(***************************************************************************)
\* a query that lost its WHERE clause
WherePasses_nofilter(r) == r.damage # NULL

\* WHERE "* Damage" != 'Inaccessible': a NULL damage compares to NULL, not TRUE.
WherePasses(r) == r.damage # NULL /\ r.damage # INACCESSIBLE

\* con.execute(SELECT ... WHERE ...).df(): the rows of the table that pass.
Query(table) == [k \in Kinds |-> IF WherePasses(k) THEN table[k] ELSE 0]

\* The second query of train (flow.py:132-151), of the same text.
QueryOrig(table) == [k \in Kinds |-> IF WherePasses(k) THEN table[k] ELSE 0]

\* the kinds a frame holds at least one row of
Rows(df) == {k \in Kinds : df[k] > 0}

NumRows(df) == Sum(df, Kinds)

\* (df["damage"] == "Destroyed (>50%)").astype(int)
Target(r) == IF r.damage = DESTROYED THEN 1 ELSE 0

\* a fillna with another sentinel than the one inference defaults to
FillNa_other(v) == IF v = NULL THEN "Metal" ELSE v

\* .fillna("Unknown").astype(str) on a string column
FillNa(v) == IF v = NULL THEN "Unknown" ELSE v

\* LabelEncoder.fit: classes_ is the sorted array of the distinct labels.
Fit(values) == [classes_ |-> SelectSeq(Vocabulary, LAMBDA v : v \in values)]

\* a transform that counts the classes from 1
Transform_from1(encoder, value) ==
    IF \E i \in DOMAIN encoder.classes_ : encoder.classes_[i] = value
    THEN Ok(CHOOSE i \in DOMAIN encoder.classes_ : encoder.classes_[i] = value)
    ELSE ValueError

\* LabelEncoder.transform([value])[0]: the index in classes_, or ValueError.
Transform(encoder, value) ==
    IF \E i \in DOMAIN encoder.classes_ : encoder.classes_[i] = value
    THEN Ok((CHOOSE i \in DOMAIN encoder.classes_ : encoder.classes_[i] = value) - 1)
    ELSE ValueError

\* encoders[col] after the loop of flow.py:96-99
FitEncoders(df) ==
    [c \in Cols |-> Fit({FillNa(r.vals[c]) : r \in Rows(df)})]

\* le.fit_transform(...)[i]: the position of the label in classes_
FitTransform(encoder, value) ==
    (CHOOSE i \in DOMAIN encoder.classes_ : encoder.classes_[i] = value) - 1

\* df[col] = le.fit_transform(...): the encoded row of every record of df
EncodeFrame(df, encoders) ==
    [r \in Rows(df) |-> [c \in Cols |-> FitTransform(encoders[c], FillNa(r.vals[c]))]]

\* X = df[feature_cols]: the columns in the order of the list
SelectCols(frame, cols) ==
    [r \in DOMAIN frame |-> [i \in DOMAIN cols |-> frame[r][cols[i]]]]

(***************************************************************************)
(* train: train_test_split(X, y, test_size=0.2, random_state=42,           *)
(* stratify=y)                                                             *)
(***************************************************************************)
\* test_size=0.2 as the ratio 1 / TestDen
TestDen == 5
\* random_state=42
random_state == 42
\* n_estimators=100, max_depth=5
n_estimators == 100
max_depth == 5

\* number of rows of df whose target is y
ClassCount(df, y) == Sum(df, {k \in Kinds : Target(k) = y})

\* np.unique(y): the target classes present
Classes(df) == {y \in {0, 1} : ClassCount(df, y) > 0}

\* _validate_shuffle_split: n_test = ceil(test_size * n_samples)
NTest(n) == (n + TestDen - 1) \div TestDen
NTrain(n) == n - NTest(n)

\* a generator taken from the process: np.random's global one
check_random_state_global(seed) == entropy

\* check_random_state(seed) for an integer seed: a new RandomState(seed), whose
\* state is a function of the seed alone.
check_random_state(seed) == seed

\* rng.choice(inds, size=k, replace=False): a fixed function of the generator's
\* state and the arguments (the k smallest or the k largest, by the state).
RngChoice(rng, inds, k) ==
    CHOOSE T \in SUBSET inds :
        /\ Cardinality(T) = k
        /\ \A x \in T, z \in inds \ T : IF rng % 2 = 0 THEN x < z ELSE x > z

\* _approximate_mode's loop: hand the need_to_add draws to the classes with the
\* largest remainders, ties broken by the generator.
RECURSIVE AddByRemainder(_, _, _, _)
AddByRemainder(alloc, rem, need, pending) ==
    IF need = 0 \/ pending = {} THEN alloc
    ELSE LET top == CHOOSE v \in {rem[c] : c \in pending} :
                        \A c \in pending : rem[c] <= v
             inds == {c \in pending : rem[c] = top}
             add_now == Min(Cardinality(inds), need)
             chosen == RngChoice(check_random_state(random_state), inds, add_now)
         IN AddByRemainder([c \in DOMAIN alloc |->
                               IF c \in chosen THEN alloc[c] + 1 ELSE alloc[c]],
                           rem, need - add_now, pending \ inds)

\* _approximate_mode(class_counts, n_draws, rng)
ApproximateMode(class_counts, n_draws) ==
    LET cs == DOMAIN class_counts
        total == Sum(class_counts, cs)
        floored == [c \in cs |-> (class_counts[c] * n_draws) \div total]
        rem == [c \in cs |-> (class_counts[c] * n_draws) % total]
    IN AddByRemainder(floored, rem, n_draws - Sum(floored, cs), cs)

\* the kinds that come before k in table order
Before(k) ==
    LET i == CHOOSE j \in DOMAIN KindSeq : KindSeq[j] = k
    IN {KindSeq[j] : j \in 1..(i - 1)}

\* rng.permutation(n) over the rows of a class: a fixed function of the
\* generator's state (table order or its reverse, by the state); the kinds that
\* come before k in it.
PermutedBefore(rng, k) ==
    IF rng % 2 = 0 THEN Before(k) ELSE Kinds \ (Before(k) \cup {k})

\* The rows of each class the permutation puts in the train part: n_i[y] rows of
\* class y, the first of the class in the generator's permutation.
TakeTrain(df, n_i) ==
    [k \in Kinds |->
        LET rng == check_random_state(random_state)
            earlier == Sum(df, {j \in PermutedBefore(rng, k) : Target(j) = Target(k)})
        IN IF df[k] = 0 THEN 0
           ELSE Min(df[k], Max(0, n_i[Target(k)] - earlier))]

\* train_test_split: ValueError, or the train and test parts of the frame.
TrainTestSplit(df) ==
    LET n == NumRows(df)
        cs == Classes(df)
        class_counts == [y \in cs |-> ClassCount(df, y)]
    IN IF NTrain(n) = 0 THEN ValueError
       ELSE IF \E y \in cs : class_counts[y] < 2 THEN ValueError
       ELSE IF NTrain(n) < Cardinality(cs) \/ NTest(n) < Cardinality(cs)
            THEN ValueError
       ELSE LET n_i == ApproximateMode(class_counts, NTrain(n))
                train == TakeTrain(df, n_i)
            IN Ok([train |-> train, test |-> [k \in Kinds |-> df[k] - train[k]]])

(***************************************************************************)
(* train: the classifier, its evaluation, the destruction statistics       *)
(***************************************************************************)
\* a ratio num / den, kept exact
Ratio(num, den) == <<num, den>>
RatioLess(p, q) == p[1] * q[2] < q[1] * p[2]
RatioEq(p, q) == p[1] * q[2] = q[1] * p[2]

\* GradientBoostingClassifier(...).fit(X_train, y_train): ValueError when y_train
\* holds fewer than two classes.  The fitted ensemble is kept as what it was fitted
\* on: per encoded row of the train part, the destroyed and the total row counts.
ModelFit(X, train) ==
    IF Cardinality(Classes(train)) < 2 THEN ValueError
    ELSE LET vecs == {X[r] : r \in Rows(train)}
             like(v) == {r \in Rows(train) : X[r] = v}
         IN Ok([seen |-> [v \in vecs |->
                             <<Sum(train, {r \in like(v) : Target(r) = 1}),
                               Sum(train, like(v))>>],
                base |-> <<ClassCount(train, 1), NumRows(train)>>,
                params |-> <<n_estimators, max_depth, random_state>>])

\* model.predict_proba(X)[0, 1]: a fixed function of the fitted model and the row.
PredictProba(model, x) ==
    LET c == IF x \in DOMAIN model.seen THEN model.seen[x] ELSE model.base
    IN Ratio(c[1] + 1, c[2] + 2)

\* roc_auc_score(y_test, y_pred_proba): ValueError when y_test holds one class;
\* else the share of (destroyed, not destroyed) pairs ranked right, ties half.
RocAucScore(model, X, test) ==
    IF Cardinality(Classes(test)) < 2 THEN ValueError
    ELSE LET pos == {r \in Rows(test) : Target(r) = 1}
             neg == {r \in Rows(test) : Target(r) = 0}
             w == [pr \in pos \X neg |->
                     LET sp == PredictProba(model, X[pr[1]])
                         sn == PredictProba(model, X[pr[2]])
                     IN test[pr[1]] * test[pr[2]] *
                        (IF RatioLess(sn, sp) THEN 2
                         ELSE IF RatioEq(sn, sp) THEN 1 ELSE 0)]
         IN Ok(Ratio(Sum(w, pos \X neg),
                     2 * ClassCount(test, 1) * ClassCount(test, 0)))

\* model.feature_importances_: a column the train part holds one value of is never
\* split on; kept as the number of further values the column takes.
FeatureImportances(X, train) ==
    [i \in DOMAIN feature_cols |-> Cardinality({X[r][i] : r \in Rows(train)}) - 1]

\* dict(zip(feature_cols, model.feature_importances_))
DictZip(keys, values) ==
    [k \in Range(keys) |-> values[CHOOSE i \in DOMAIN keys : keys[i] = k]]

\* stats = stats[stats["count"] >= 20]
MIN_SAMPLES == 20

\* a threshold off by one
KeepStat_19(count) == count >= MIN_SAMPLES - 1

KeepStat(count) == count >= MIN_SAMPLES

\* statistics grouped by the filled value: nulls counted as "Unknown"
GroupStats_filled(df_orig, col) ==
    LET group(v) == {r \in Rows(df_orig) : FillNa(r.vals[col]) = v}
        keys == SelectSeq(Vocabulary, LAMBDA v : group(v) # {})
    IN [i \in DOMAIN keys |->
          [value |-> keys[i],
           destruction_rate |->
               Ratio(Sum(df_orig, {r \in group(keys[i]) : Target(r) = 1}),
                     Sum(df_orig, group(keys[i]))),
           count |-> Sum(df_orig, group(keys[i]))]]

\* df_orig.groupby(col).agg(mean, count): one group per non-null raw value, in
\* sorted order; destruction_rate is the mean of target over the group.
GroupStats(df_orig, col) ==
    LET group(v) == {r \in Rows(df_orig) : r.vals[col] = v}
        keys == SelectSeq(Vocabulary, LAMBDA v : group(v) # {})
    IN [i \in DOMAIN keys |->
          [value |-> keys[i],
           destruction_rate |->
               Ratio(Sum(df_orig, {r \in group(keys[i]) : Target(r) = 1}),
                     Sum(df_orig, group(keys[i]))),
           count |-> Sum(df_orig, group(keys[i]))]]

\* feature_value_stats of flow.py:155-165
FeatureValueStats(df_orig) ==
    [c \in Cols |-> SelectSeq(GroupStats(df_orig, c), LAMBDA s : KeepStat(s.count))]

(***************************************************************************)
(* start: render_wildfire_card                                             *)
(***************************************************************************)
\* The characters of the model's strings, in code point order; a string is the
\* sequence of its characters.
Chars == <<" ", "-", "/", "0", "1", "2", "5", "9", ":">>

CharCode(ch) == CHOOSE i \in DOMAIN Chars : Chars[i] = ch

\* a < b as Python and duckdb compare strings: by code point, a prefix first
StrLess(a, b) ==
    \E i \in 1..(Min(Len(a), Len(b)) + 1) :
        /\ \A j \in 1..(i - 1) : a[j] = b[j]
        /\ \/ i > Len(a) /\ i <= Len(b)
           \/ /\ i <= Len(a) /\ i <= Len(b)
              /\ CharCode(a[i]) < CharCode(b[i])

\* What fetchall hands over for a column: None for NULL, else a str or a number.
Str(chars) == [str |-> chars]
Num(n) == [num |-> n]

\* ORDER BY "Incident Start Date": ascending, NULL after every string
DateBefore(a, b) ==
    IF a = None THEN FALSE
    ELSE IF b = None THEN TRUE
    ELSE StrLess(a.str, b.str)

\* str.split(): the maximal runs of characters that are not whitespace
RECURSIVE SplitWs(_)
SplitWs(str) ==
    IF str = <<>> THEN <<>>
    ELSE IF Head(str) = " " THEN SplitWs(Tail(str))
    ELSE LET stops == {i \in DOMAIN str : str[i] = " "}
             n == IF stops = {} THEN Len(str)
                  ELSE (CHOOSE i \in stops : \A j \in stops : i <= j) - 1
         IN <<SubSeq(str, 1, n)>> \o SplitWs(SubSeq(str, n + 1, Len(str)))

\* str.split(sep): the pieces between the occurrences of sep, empty ones included
RECURSIVE SplitOn(_, _)
SplitOn(str, sep) ==
    LET at == {i \in DOMAIN str : str[i] = sep}
    IN IF at = {} THEN <<str>>
       ELSE LET i == CHOOSE x \in at : \A y \in at : x <= y
            IN <<SubSeq(str, 1, i - 1)>> \o SplitOn(SubSeq(str, i + 1, Len(str)), sep)

\* str.zfill(width)
RECURSIVE zfill(_, _)
zfill(str, width) == IF Len(str) >= width THEN str ELSE zfill(<<"0">> \o str, width)

\* a guard that lets every date through
DateGiven_always(date_str) == TRUE

\* if date_str: neither None nor the empty string
DateGiven(date_str) == date_str # None /\ date_str # Str(<<>>)

\* the exceptions the loop does not catch
AttributeError == [raised |-> TRUE, value |-> "AttributeError"]

\* WHERE Latitude IS NOT NULL AND Longitude IS NOT NULL AND Latitude != 0
\* AND Longitude != 0
HasLocation(row) ==
    /\ row.lat # None /\ row.lon # None
    /\ row.lat # Num(0) /\ row.lon # Num(0)

\* The orders the query may return the rows of a table in: the rows that pass
\* the WHERE clause, ascending by date; rows of equal date in any order.
CardQuery(table) ==
    LET sel == {i \in DOMAIN table : HasLocation(table[i])}
    IN {res \in [1..Cardinality(sel) -> sel] :
          /\ \A a, b \in DOMAIN res : a # b => res[a] # res[b]
          /\ \A a, b \in DOMAIN res :
                a < b => ~DateBefore(table[res[b]].date, table[res[a]].date)}

\* incidents_by_month[month_key].append(entry) on the defaultdict
Append2(by_month, month_key, entry) ==
    [k \in DOMAIN by_month \cup {month_key} |->
        IF k = month_key
        THEN (IF k \in DOMAIN by_month THEN by_month[k] ELSE <<>>) \o <<entry>>
        ELSE by_month[k]]

\* The body of the loop for one fetched row: the dictionary after it, or the
\* exception that leaves the loop.  IndexError and ValueError are caught and the
\* row skipped; None has no split.
LoopBody(by_month, name, row) ==
    IF ~DateGiven(row.date) THEN Ok(by_month)
    ELSE IF row.date = None THEN AttributeError
    ELSE LET words == SplitWs(row.date.str)
         IN IF words = <<>> THEN Ok(by_month)
            ELSE LET parts == SplitOn(words[1], "-")
                 IN IF Len(parts) # 3 THEN Ok(by_month)
                    ELSE LET month == parts[1]
                             year == parts[3]
                             month_key == year \o <<"-">> \o zfill(month, 2)
                         IN Ok(Append2(by_month, month_key,
                                       [date |-> words[1], incident_name |-> name,
                                        lat |-> row.lat, lon |-> row.lon]))

\* for row in result
RECURSIVE Loop(_, _, _, _)
Loop(table, result, i, by_month) ==
    IF i > Len(result) THEN Ok(by_month)
    ELSE LET after == LoopBody(by_month, result[i], table[result[i]])
         IN IF after.raised THEN after
            ELSE Loop(table, result, i + 1, after.value)

\* render_wildfire_card on the rows the query fetched, in the order it fetched
\* them: the html, which holds the title and the dumped dictionary.
render_wildfire_card(table, result) ==
    LET incidents_by_month == Loop(table, result, 1, [k \in {} |-> <<>>])
    IN IF incidents_by_month.raised THEN incidents_by_month
       ELSE Ok([title |-> "California Wildfire Incidents",
                data |-> [incidents_by_month |-> incidents_by_month.value]])

(***************************************************************************)
(* WildfireFlow                                                            *)
(***************************************************************************)
\* The line of train at which each artifact is assigned to self.
AssignLine ==
    [auc_score |-> 117, feature_importances |-> 121,
     model |-> 127, encoders |-> 128, feature_cols |-> 129]

ArtifactNames == DOMAIN AssignLine

\* encoders and feature_cols stored as soon as the encoders are fitted
AssignedBefore_early(line) ==
    {a \in ArtifactNames : a \in {"encoders", "feature_cols"} \/ AssignLine[a] < line}

\* The artifacts train has assigned when it raises at line `line`.
AssignedBefore(line) == {a \in ArtifactNames : AssignLine[a] < line}

\* The line at which each local of train is assigned.
LocalLine ==
    [df |-> 54, encoders |-> 95, X |-> 101, y |-> 102, split |-> 105,
     df_orig |-> 132, feature_value_stats |-> 155]

LocalsBefore(line) == {a \in DOMAIN LocalLine : LocalLine[a] < line}

\* past the last line of train
TrainEnd == 175

\* The train step run on a table: the line it raises at (TrainEnd when it
\* completes), and what it has assigned to self and to its locals by then.
TrainOutcome(table) ==
    LET df == Query(table)
        encoders == FitEncoders(df)
        X == SelectCols(EncodeFrame(df, encoders), feature_cols)
        split == TrainTestSplit(df)
        model == ModelFit(X, split.value.train)
        auc == RocAucScore(model.value, X, split.value.test)
        df_orig == QueryOrig(table)
        line == IF split.raised THEN 105
                ELSE IF model.raised THEN 113
                ELSE IF auc.raised THEN 117
                ELSE TrainEnd
    IN [line |-> line,
        self |-> [a \in AssignedBefore(line) |->
                    CASE a = "auc_score" -> auc.value
                      [] a = "feature_importances" ->
                            DictZip(feature_cols,
                                    FeatureImportances(X, split.value.train))
                      [] a = "model" -> model.value
                      [] a = "encoders" -> encoders
                      [] a = "feature_cols" -> feature_cols],
        locals |-> [a \in LocalsBefore(line) |->
                    CASE a = "df" -> df
                      [] a = "encoders" -> encoders
                      [] a = "X" -> X
                      [] a = "y" -> [r \in Rows(df) |-> Target(r)]
                      [] a = "split" -> split.value
                      [] a = "df_orig" -> df_orig
                      [] a = "feature_value_stats" -> FeatureValueStats(df_orig)]]

\* the numbers of rows of one kind a table may hold
CountSet == {0, 1} \cup ((MIN_SAMPLES - 1)..MaxCount)

\* Tables: kinds the query drops are absent or present in bulk.
Tables ==
    {t \in [Kinds -> CountSet] :
        \A k \in Kinds : k.damage \in {DESTROYED, NO_DAMAGE} \/ t[k] \in {0, MaxCount}}

NoArtifacts == [a \in {} |-> Unset]

\* index=sorted(CALIFORNIA_COUNTIES.keys()).index("Los Angeles")
DefaultCounty == "Los Angeles"

InitApp ==
    /\ runs = 0
    /\ latest_run = None
    /\ cache = <<>>
    /\ load_path = "none"
    /\ session_state = NoArtifacts
    /\ page = "none"
    /\ loaded = <<>>
    /\ selected_county = DefaultCounty
    /\ last_object_clicked = None
    /\ rerun_count = 0
    /\ call = <<>>

\* row i of a table is the incident named i
Incident(date, lat, lon) == [date |-> date, lat |-> lat, lon |-> lon]

\* "01-05-2020 10:00"
Date1 == <<"0", "1", "-", "0", "5", "-", "2", "0", "2", "0", " ", "1", "0", ":", "0", "0">>
\* "01-20-2020"
Date2 == <<"0", "1", "-", "2", "0", "-", "2", "0", "2", "0">>
\* "1-09-2020"
Date3 == <<"1", "-", "0", "9", "-", "2", "0", "2", "0">>
\* "02-01-2019 09:15"
Date4 == <<"0", "2", "-", "0", "1", "-", "2", "0", "1", "9", " ", "0", "9", ":", "1", "5">>
\* ""
DateEmpty == <<>>
\* "  "
DateBlank == <<" ", " ">>
\* "01/05/2020"
DateSlashes == <<"0", "1", "/", "0", "5", "/", "2", "0", "2", "0">>
\* "01-2020"
DateTwoParts == <<"0", "1", "-", "2", "0", "2", "0">>
\* "01-05-2020-9"
DateFourParts == <<"0", "1", "-", "0", "5", "-", "2", "0", "2", "0", "-", "9">>

DateStrings ==
    {Date1, Date2, Date3, Date4, DateEmpty, DateBlank, DateSlashes,
     DateTwoParts, DateFourParts}

\* the rows the card's tables are made of
IncidentKinds ==
    {Incident(d, Num(34), Num(-118)) : d \in {Str(x) : x \in DateStrings} \cup {None}}
        \cup {Incident(Str(Date1), Num(0), Num(-118)),
              Incident(Str(Date2), Num(34), None),
              Incident(Str(Date4), None, Num(0))}

RECURSIVE SeqsUpTo(_, _)
SeqsUpTo(S, n) ==
    IF n = 0 THEN {<<>>}
    ELSE LET shorter == SeqsUpTo(S, n - 1)
         IN shorter \cup {Append(q, x) : q \in {r \in shorter : Len(r) = n - 1}, x \in S}

IncidentTables == SeqsUpTo(IncidentKinds, MaxIncidents)

\* the incident columns of the tables the train step is checked on
FlowIncidents ==
    <<Incident(Str(Date4), Num(34), Num(-118)), Incident(Str(Date1), Num(34), Num(-118))>>

InitFlow ==
    /\ wfdata \in Tables
    /\ incidents = FlowIncidents
    /\ step = "start"
    /\ self = NoArtifacts
    /\ locals = NoArtifacts
    /\ entropy = 0
    /\ previous = <<>>
    /\ InitApp

\* step start: renders the incident card into self.html; an exception out of
\* render_wildfire_card fails the step.
start ==
    /\ step = "start"
    /\ \E result \in CardQuery(incidents) :
          LET html == render_wildfire_card(incidents, result)
          IN IF html.raised
             THEN step' = "failed" /\ UNCHANGED self
             ELSE /\ self' = [a \in {"html"} |-> html.value]
                  /\ step' = "train"
    /\ UNCHANGED <<wfdata, incidents, locals, entropy, previous>>
    /\ UNCHANGED appVars

\* step train
train ==
    /\ step = "train"
    /\ LET out == TrainOutcome(wfdata)
       IN /\ self' = [a \in DOMAIN self \cup DOMAIN out.self |->
                        IF a \in DOMAIN out.self THEN out.self[a] ELSE self[a]]
          /\ locals' = out.locals
          /\ step' = IF out.line = TrainEnd THEN "end" ELSE "failed"
    /\ UNCHANGED <<wfdata, incidents, entropy, previous>>
    /\ UNCHANGED appVars

\* step end
end ==
    /\ step = "end"
    /\ step' = "done"
    /\ UNCHANGED <<wfdata, incidents, self, locals, entropy, previous>>
    /\ UNCHANGED appVars

NextFlow == start \/ train \/ end

\* the tables a flow is run on twice
RerunTables == {t \in Tables : \A k \in Kinds : t[k] \in {0, 1, MaxCount}}

InitRerun ==
    /\ wfdata \in RerunTables
    /\ incidents = FlowIncidents
    /\ step = "start"
    /\ self = NoArtifacts
    /\ locals = NoArtifacts
    /\ entropy \in 0..MaxEntropy
    /\ previous = <<>>
    /\ InitApp

\* The flow is run once more on the same data, in a new process: what the
\* earlier run ended with is kept for comparison.
rerun ==
    /\ step \in {"done", "failed"}
    /\ previous = <<>>
    /\ previous' = <<[step |-> step, self |-> self, locals |-> locals,
                      entropy |-> entropy]>>
    /\ entropy' \in 0..MaxEntropy
    /\ step' = "start"
    /\ self' = NoArtifacts
    /\ locals' = NoArtifacts
    /\ UNCHANGED <<wfdata, incidents>>
    /\ UNCHANGED appVars

NextRerun == start \/ train \/ end \/ rerun

\* the card rendered from a table of incidents; the step after it has no rows
InitCard ==
    /\ wfdata = [k \in Kinds |-> 0]
    /\ incidents \in IncidentTables
    /\ step = "start"
    /\ self = NoArtifacts
    /\ locals = NoArtifacts
    /\ entropy = 0
    /\ previous = <<>>
    /\ InitApp

NextCard == start \/ train

(***************************************************************************)
(* The scenario app                                                        *)
(***************************************************************************)
\* the tables the flow runs are trained on while the app is up
AppTables ==
    {t \in [Kinds -> {0, AppCount}] :
        \A k \in Kinds : k.damage \in {DESTROYED, NO_DAMAGE} \/ t[k] = AppCount}

\* the train step's outcome on each of them
AppOutcomeSet == {<<t, TrainOutcome(t)>> : t \in AppTables}
AppOutcome == [t \in AppTables |-> (CHOOSE pr \in AppOutcomeSet : pr[1] = t)[2]]

\* run.id
RunId(n) == <<"WildfireFlow", n>>

\* A run of WildfireFlow on table t ends: when every step completed, it is the
\* latest successful run, with the artifacts train assigned.
flow_run(t) ==
    /\ runs < MaxRuns
    /\ runs' = runs + 1
    /\ latest_run' =
          IF AppOutcome[t].line = TrainEnd
          THEN [id |-> RunId(runs + 1), data |-> AppOutcome[t].self]
          ELSE latest_run
    /\ UNCHANGED <<cache, load_path, session_state, page, loaded, call>>
    /\ UNCHANGED <<selected_county, last_object_clicked, rerun_count>>
    /\ UNCHANGED flowVars

AllNone ==
    [model |-> None, encoders |-> None, feature_cols |-> None,
     auc_score |-> None, run_id |-> None]

\* The body of load_model.  Flow("WildfireFlow") raises when the flow has no run
\* at all, and reading the run's data raises when `fails`: both are caught.
load_model(n_runs, latest, fails) ==
    IF n_runs = 0 \/ fails
    THEN [path |-> "error", ret |-> AllNone]
    ELSE IF latest = None
    THEN [path |-> "no_run", ret |-> AllNone]
    ELSE [path |-> "ok",
          ret |-> [model |-> latest.data.model,
                   encoders |-> latest.data.encoders,
                   feature_cols |-> latest.data.feature_cols,
                   auc_score |-> latest.data.auc_score,
                   run_id |-> latest.id]]

\* a fallback that goes to code 0 without trying "Unknown"
encode_feature_zero(value, encoder, feature_name) ==
    LET r == Transform(encoder, value)
    IN IF ~r.raised THEN r.value ELSE 0

\* encode_feature: transform the value; on ValueError transform "Unknown"; on
\* ValueError again, 0.
encode_feature(value, encoder, feature_name) ==
    LET r == Transform(encoder, value)
    IN IF ~r.raised THEN r.value
       ELSE LET u == Transform(encoder, "Unknown")
            IN IF ~u.raised THEN u.value ELSE 0

\* features.get(col, default)
DictGet(d, k, default) == IF k \in DOMAIN d THEN d[k] ELSE default

\* a default other than "Unknown" for an absent column
FeatureValue_other(features, col) == DictGet(features, col, "Wood")

\* the value predict_destruction looks up for a column
FeatureValue(features, col) == DictGet(features, col, "Unknown")

\* a predict_destruction that answers from the session's stored result
predict_destruction_cached(model, encoders, cols, features) ==
    IF cols = None THEN TypeError
    ELSE LET encoded_features ==
                 [i \in DOMAIN cols |->
                     encode_feature(FeatureValue(features, cols[i]),
                                    encoders[cols[i]], cols[i])]
         IN Ok([X |-> encoded_features,
                proba |-> IF "prediction_result" \in DOMAIN session_state
                          THEN session_state["prediction_result"]
                          ELSE PredictProba(model, encoded_features)])

\* predict_destruction: X is np.array([encoded_features])[0].  Iterating a
\* feature_cols of None raises TypeError.
predict_destruction(model, encoders, cols, features) ==
    IF cols = None THEN TypeError
    ELSE LET encoded_features ==
                 [i \in DOMAIN cols |->
                     encode_feature(FeatureValue(features, cols[i]),
                                    encoders[cols[i]], cols[i])]
         IN Ok([X |-> encoded_features,
                proba |-> PredictProba(model, encoded_features)])

\* an encoder that adds the labels it is asked for to its classes
EncoderAfterTransform_learns(encoder, value) ==
    Fit(Range(encoder.classes_) \cup {value})

\* LabelEncoder.transform reads classes_ and assigns nothing: the encoder object
\* after encoder.transform([value]), raised or not.
EncoderAfterTransform(encoder, value) == encoder

\* the encoder object after encode_feature(value, encoder, feature_name): one
\* transform, and a second one of "Unknown" when the first raised
EncoderAfterEncode(value, encoder) ==
    LET first == EncoderAfterTransform(encoder, value)
    IN IF Transform(encoder, value).raised
       THEN EncoderAfterTransform(first, "Unknown")
       ELSE first

\* model.predict_proba assigns nothing to the fitted ensemble
ModelAfterPredict(model, x) == model

\* The objects load_model returned, after predict_destruction ran on them: the
\* loop reads feature_cols, encodes with encoders[col], then scores the row.
ArtifactAfterPredict(ret, features) ==
    LET out == predict_destruction(ret.model, ret.encoders, ret.feature_cols, features)
    IN [ret EXCEPT
          !.encoders = [c \in DOMAIN ret.encoders |->
                           IF c \in Range(ret.feature_cols)
                           THEN EncoderAfterEncode(FeatureValue(features, c),
                                                   ret.encoders[c])
                           ELSE ret.encoders[c]],
          !.model = ModelAfterPredict(ret.model, out.value.X)]

\* a main that goes on without a model
StopsWithoutModel_never(model) == FALSE

\* if model is None: st.stop()
StopsWithoutModel(model) == model = None

\* f"{auc_score:.3f}" raises TypeError on None
FormatAuc(auc_score) == IF auc_score = None THEN TypeError ELSE Ok(auc_score)

\* What the widgets hand to main: every column of FEATURE_OPTIONS and county.
FullMap(a, b) == [c \in Cols |-> IF c \in OddCols THEN a ELSE b]

LabelPairs == {<<"Wood", "Wood">>, <<"Metal", "Wood">>,
               <<"Unknown", "Metal">>, <<"Tile", "Tile">>}

UIMaps == {FullMap(p[1], p[2]) : p \in LabelPairs}

Restrict(f, S) == [x \in S |-> f[x]]

\* features = {"county": selected_county}, then one entry per selectbox
WithCounty(features, county) == [features EXCEPT !["county"] = county]

\* What a caller may hand to predict_destruction: also mappings that lack columns.
ApiMaps ==
    UIMaps \cup {Restrict(m, Cols \ OddCols) : m \in UIMaps} \cup {Restrict(m, {}) : m \in UIMaps}
        \cup {WithCounty(m, DefaultCounty) : m \in UIMaps}

\* Degrees are kept in units of 1/Scale degree.
Scale == 10000

\* CALIFORNIA_COUNTIES, in the order of the dictionary: the counties of the model.
CALIFORNIA_COUNTIES ==
    << [county |-> "Los Angeles", lat |-> 343083, lon |-> -1182280],
       [county |-> "Orange", lat |-> 337175, lon |-> -1178311],
       [county |-> "Ventura", lat |-> 344583, lon |-> -1190322] >>

CountyNames == {CALIFORNIA_COUNTIES[i].county : i \in DOMAIN CALIFORNIA_COUNTIES}

\* float("inf"): above every squared distance of the model
Infinity == 2000000000

\* min_dist < 0.5, in squared units of 1/Scale degree
HalfSquared == 50000000

\* the points a click on the map may return: the Los Angeles and the Orange marker,
\* a point between the two (nearest to Orange), a point far from every marker
Clicks ==
    { [lat |-> 343083, lng |-> -1182280], [lat |-> 337175, lng |-> -1178311],
      [lat |-> 340000, lng |-> -1180000], [lat |-> 365000, lng |-> -1180000] }

\* the loop of lines 310-316 from county i on: the first county at the least
\* squared distance, and that distance
RECURSIVE ClosestFrom(_, _, _, _)
ClosestFrom(i, clicked, min_dist, closest_county) ==
    IF i > Len(CALIFORNIA_COUNTIES)
    THEN [min_dist |-> min_dist, closest_county |-> closest_county]
    ELSE LET c == CALIFORNIA_COUNTIES[i]
             dist == (c.lat - clicked.lat) * (c.lat - clicked.lat)
                        + (c.lon - clicked.lng) * (c.lon - clicked.lng)
         IN IF dist < min_dist
            THEN ClosestFrom(i + 1, clicked, dist, c.county)
            ELSE ClosestFrom(i + 1, clicked, min_dist, closest_county)

\* a map block that asks for no rerun
MapAsksRerun_never(county, clicked) == FALSE

\* The map block of main: whether it ends the script run with st.rerun().
MapAsksRerun(county, clicked) ==
    /\ clicked # None
    /\ clicked.lat # 0 /\ clicked.lng # 0
    /\ LET found == ClosestFrom(1, clicked, Infinity, county)
       IN found.closest_county # county /\ found.min_dist < HalfSquared

\* One script run of main: with the values the widgets and the map component
\* hold in it, started by the user or (by_rerun) by st.rerun().
main(features, button, fails, county, clicked, by_rerun) ==
    LET got == IF cache # <<>>
               THEN [path |-> load_path, ret |-> cache[1]]
               ELSE load_model(runs, latest_run, fails)
        ret == got.ret
        shown == FormatAuc(ret.auc_score)
        given == WithCounty(features, county)
        out == predict_destruction(ret.model, ret.encoders, ret.feature_cols, given)
        stops == StopsWithoutModel(ret.model)
        reruns == ~stops /\ ~shown.raised /\ MapAsksRerun(county, clicked)
    IN /\ cache' = IF button /\ ~stops /\ ~reruns /\ ~shown.raised /\ ~out.raised
                   THEN <<ArtifactAfterPredict(ret, given)>>
                   ELSE <<ret>>
       /\ load_path' = got.path
       /\ loaded' = IF cache # <<>> THEN loaded ELSE <<ret>>
       /\ selected_county' = county
       /\ last_object_clicked' = clicked
       /\ rerun_count' = IF by_rerun THEN rerun_count + 1 ELSE 0
       /\ IF stops
          THEN page' = "no_model" /\ UNCHANGED <<session_state, call>>
          ELSE IF shown.raised
          THEN page' = "exception" /\ UNCHANGED <<session_state, call>>
          ELSE IF reruns
          THEN page' = "rerun" /\ UNCHANGED <<session_state, call>>
          ELSE IF button /\ out.raised
          THEN page' = "exception" /\ UNCHANGED <<session_state, call>>
          ELSE IF button
          THEN /\ session_state' =
                     [k \in {"prediction_result", "prediction_features"} |->
                         IF k = "prediction_result" THEN out.value.proba ELSE given]
               /\ UNCHANGED call
               /\ page' = "result"
          ELSE /\ page' = IF "prediction_result" \in DOMAIN session_state
                          THEN "result" ELSE "form"
               /\ UNCHANGED <<session_state, call>>
       /\ UNCHANGED <<runs, latest_run>>
       /\ UNCHANGED flowVars

\* A caller scores a mapping with the artifact load_model returned.
predict_call(features) ==
    /\ cache # <<>>
    /\ cache[1].model # None
    /\ LET ret == cache[1]
           out == predict_destruction(ret.model, ret.encoders, ret.feature_cols, features)
       IN /\ call' = <<[features |-> features,
                        X |-> out.value.X, proba |-> out.value.proba]>>
          /\ cache' = <<ArtifactAfterPredict(ret, features)>>
    /\ UNCHANGED <<runs, latest_run, load_path, session_state, page, loaded>>
    /\ UNCHANGED <<selected_county, last_object_clicked, rerun_count>>
    /\ UNCHANGED flowVars

\* A new browser session: an empty st.session_state.
new_session ==
    /\ session_state # NoArtifacts
    /\ session_state' = NoArtifacts
    /\ page' = "none"
    /\ UNCHANGED <<runs, latest_run, cache, load_path, loaded, call>>
    /\ selected_county' = DefaultCounty
    /\ last_object_clicked' = None
    /\ rerun_count' = 0
    /\ UNCHANGED flowVars

\* The app's process restarts: the resource cache and the sessions are gone.
app_restart ==
    /\ cache # <<>>
    /\ cache' = <<>>
    /\ load_path' = "none"
    /\ session_state' = NoArtifacts
    /\ page' = "none"
    /\ loaded' = <<>>
    /\ selected_county' = DefaultCounty
    /\ last_object_clicked' = None
    /\ rerun_count' = 0
    /\ call' = <<>>
    /\ UNCHANGED <<runs, latest_run>>
    /\ UNCHANGED flowVars

NextApp ==
    \/ \E t \in AppTables : flow_run(t)
    \/ \E f \in UIMaps, button \in BOOLEAN :
          \E fails \in (IF cache = <<>> THEN BOOLEAN ELSE {FALSE}) :
              main(f, button, fails, selected_county, last_object_clicked, FALSE)
    \/ \E f \in ApiMaps : predict_call(f)
    \/ new_session
    \/ app_restart

\* The app, with no flow run in progress in this process.
InitIdle ==
    /\ wfdata = [k \in Kinds |-> 0]
    /\ incidents = <<>>
    /\ step = "start"
    /\ self = NoArtifacts
    /\ locals = NoArtifacts
    /\ entropy = 0
    /\ previous = <<>>
    /\ InitApp

SpecApp == InitIdle /\ [][NextApp]_vars

\* the table the run the map is used with was trained on
MapTable == [k \in Kinds |-> AppCount]

\* The app with one successful run to load, and the county selection in use.
InitMap ==
    /\ wfdata = [k \in Kinds |-> 0]
    /\ incidents = <<>>
    /\ step = "start"
    /\ self = NoArtifacts
    /\ locals = NoArtifacts
    /\ entropy = 0
    /\ previous = <<>>
    /\ runs = 1
    /\ latest_run = [id |-> RunId(1), data |-> TrainOutcome(MapTable).self]
    /\ cache = <<>>
    /\ load_path = "none"
    /\ session_state = NoArtifacts
    /\ page = "none"
    /\ loaded = <<>>
    /\ selected_county = DefaultCounty
    /\ last_object_clicked = None
    /\ rerun_count = 0
    /\ call = <<>>

\* The user clicks the map: the component's value changes and the script runs.
map_click(features, clicked) ==
    main(features, FALSE, FALSE, selected_county, clicked, FALSE)

\* The user picks a county in the selectbox: the script runs.
select_county(features, county) ==
    main(features, FALSE, FALSE, county, last_object_clicked, FALSE)

\* The user presses the predict button: the script runs.
press_button(features) ==
    main(features, TRUE, FALSE, selected_county, last_object_clicked, FALSE)

\* The script run st.rerun() asked for: the widgets and the map component hold
\* the values they held.
script_rerun(features) ==
    /\ page = "rerun"
    /\ rerun_count < MaxReruns
    /\ main(features, FALSE, FALSE, selected_county, last_object_clicked, TRUE)

NextMap ==
    \/ \E f \in UIMaps, p \in Clicks : map_click(f, p)
    \/ \E f \in UIMaps, c \in CountyNames : select_county(f, c)
    \/ \E f \in UIMaps : press_button(f)
    \/ \E f \in UIMaps : script_rerun(f)

SpecMap == InitMap /\ [][NextMap]_vars

SpecFlow == InitFlow /\ [][NextFlow]_vars

SpecRerun == InitRerun /\ [][NextRerun]_vars

SpecCard == InitCard /\ [][NextCard]_vars

(***************************************************************************)
(* Properties of the train step (SpecFlow)                                 *)
(***************************************************************************)
\* the records of the table whose damage is a value other than "Inaccessible"
Population(table) ==
    {k \in Kinds : table[k] > 0 /\ k.damage # NULL /\ k.damage # INACCESSIBLE}

\* the labels a column takes over the population, nulls read as "Unknown"
FittedValues(table, col) ==
    {IF k.vals[col] = NULL THEN "Unknown" ELSE k.vals[col] : k \in Population(table)}

Has(name) == name \in DOMAIN locals

ColIndex(col) == CHOOSE i \in DOMAIN feature_cols : feature_cols[i] = col

\* C2: for every column, the train step's codes map the k distinct fitted values
\* (nulls as "Unknown") one-to-one onto 0..k-1, and encode_feature gives each
\* fitted value exactly the code the train step gave it.
C2_FittedCodesDense ==
    Has("X") =>
        \A c \in Cols :
            LET V == FittedValues(wfdata, c)
                i == ColIndex(c)
                lab(r) == IF r.vals[c] = NULL THEN "Unknown" ELSE r.vals[c]
            IN /\ {locals.X[r][i] : r \in Population(wfdata)} = 0..(Cardinality(V) - 1)
               /\ \A r1, r2 \in Population(wfdata) :
                     (locals.X[r1][i] = locals.X[r2][i]) <=> (lab(r1) = lab(r2))
               /\ \A r \in Population(wfdata) :
                     encode_feature(lab(r), locals.encoders[c], c) = locals.X[r][i]

\* a column with three fitted values, one of them "Unknown" from a null and from
\* the literal
C2_Witness ==
    /\ Has("X")
    /\ \E c \in Cols :
          /\ Cardinality(FittedValues(wfdata, c)) = 3
          /\ \E r1, r2 \in Population(wfdata) :
                r1.vals[c] = NULL /\ r2.vals[c] = "Unknown"

\* the mapping a caller builds from a record: nulls given as "Unknown"
AsUnknown(r) == [c \in Cols |-> IF r.vals[c] = NULL THEN "Unknown" ELSE r.vals[c]]
\* ... or left out
LeftOut(r) == [c \in {d \in Cols : r.vals[d] # NULL} |-> r.vals[c]]

Trained == step \in {"end", "done"}

\* C4: after a completed train step, for every record of the population the vector
\* predict_destruction builds from its raw values (null as "Unknown" or left out),
\* with the stored encoders and feature_cols, is the record's row of X.
C4_InferenceMatchesTraining ==
    Trained =>
        \A r \in Population(wfdata) :
            \A m \in {AsUnknown(r), LeftOut(r)} :
                predict_destruction(self.model, self.encoders, self.feature_cols, m).value.X
                    = locals.X[r]

\* a trained population with a null value and two further labels in a column
C4_Witness ==
    /\ Trained
    /\ \E r \in Population(wfdata) : \E c \in Cols :
          /\ r.vals[c] = NULL
          /\ locals.X[r][ColIndex(c)] > 0
          /\ Cardinality(FittedValues(wfdata, c)) = 3

\* number of records of the population with raw value v in column c
RawCount(table, c, v) == Sum(table, {k \in Population(table) : k.vals[c] = v})
RawDestroyed(table, c, v) ==
    Sum(table, {k \in Population(table) : k.vals[c] = v /\ k.damage = DESTROYED})

Stats(c) == locals.feature_value_stats[c]

\* C5: no emitted statistic has count < 20, every emitted rate is in [0,1], and a
\* value occurring fewer than 20 times is not emitted.
C5_StatsThreshold ==
    Has("feature_value_stats") =>
        \A c \in Cols :
            /\ \A j \in DOMAIN Stats(c) :
                  /\ Stats(c)[j].count >= 20
                  /\ Stats(c)[j].destruction_rate[2] > 0
                  /\ 0 <= Stats(c)[j].destruction_rate[1]
                  /\ Stats(c)[j].destruction_rate[1] <= Stats(c)[j].destruction_rate[2]
            /\ \A v \in Range(Vocabulary) :
                  RawCount(wfdata, c, v) < 20 =>
                      \A j \in DOMAIN Stats(c) : Stats(c)[j].value # v

\* a column with a value of 19 records dropped and a value of 20 records emitted
C5_Witness ==
    /\ Has("feature_value_stats")
    /\ \E c \in Cols : \E v, w \in Range(Vocabulary) :
          /\ RawCount(wfdata, c, v) = 19
          /\ RawCount(wfdata, c, w) = 20
          /\ \E j \in DOMAIN Stats(c) : Stats(c)[j].value = w /\ Stats(c)[j].count = 20

\* C6: every emitted statistic reports the number of records of the population with
\* that raw value as count, and the destroyed ones among them over that count as
\* destruction rate.
C6_StatsExact ==
    Has("feature_value_stats") =>
        \A c \in Cols : \A j \in DOMAIN Stats(c) :
            LET st == Stats(c)[j]
            IN /\ st.count = RawCount(wfdata, c, st.value)
               /\ st.destruction_rate[1] * st.count
                     = RawDestroyed(wfdata, c, st.value) * st.destruction_rate[2]
               /\ st.destruction_rate[2] > 0

\* "Unknown" emitted beside null records, with a rate strictly between 0 and 1
\* emitted for another value
C6_Witness ==
    /\ Has("feature_value_stats")
    /\ \E c \in Cols :
          /\ \E k \in Population(wfdata) : k.vals[c] = NULL
          /\ \E j \in DOMAIN Stats(c) : Stats(c)[j].value = "Unknown"
    /\ \E c \in Cols : \E j \in DOMAIN Stats(c) :
          /\ 0 < Stats(c)[j].destruction_rate[1]
          /\ Stats(c)[j].destruction_rate[1] < Stats(c)[j].destruction_rate[2]

\* C7: no "Inaccessible" record is in the population the encoders are fitted on, the
\* classifier is trained and evaluated on, or the statistics are computed on; on it
\* target is 1 exactly for "Destroyed (>50%)"; both populations are the same.
C7_PopulationFiltered ==
    /\ Has("df") => \A k \in Kinds : locals.df[k] > 0 => k.damage # INACCESSIBLE
    /\ Has("X") => DOMAIN locals.X = {k \in Kinds : locals.df[k] > 0}
    /\ Has("y") =>
          /\ DOMAIN locals.y = {k \in Kinds : locals.df[k] > 0}
          /\ \A r \in DOMAIN locals.y : (locals.y[r] = 1) <=> (r.damage = DESTROYED)
          /\ \A r \in DOMAIN locals.y : locals.y[r] \in {0, 1}
    /\ Has("split") =>
          \A k \in Kinds :
              /\ locals.split.train[k] + locals.split.test[k] = locals.df[k]
              /\ k.damage = INACCESSIBLE =>
                    locals.split.train[k] = 0 /\ locals.split.test[k] = 0
    /\ Has("df_orig") =>
          /\ locals.df_orig = locals.df
          /\ \A k \in Kinds : locals.df_orig[k] > 0 => k.damage # INACCESSIBLE
    /\ Has("feature_value_stats") =>
          \A c \in Cols : \A j \in DOMAIN Stats(c) :
              Stats(c)[j].count <= Sum(locals.df, Kinds)

\* a completed train step on a table that holds "Inaccessible" records
C7_Witness ==
    /\ step = "end"
    /\ Has("df_orig")
    /\ \E k \in Kinds : k.damage = INACCESSIBLE /\ wfdata[k] > 0

\* the population has one target class, or no record
OneClassOrEmpty(table) ==
    \/ \A k \in Population(table) : k.damage = DESTROYED
    \/ \A k \in Population(table) : k.damage # DESTROYED

\* C8: run on a population with one target class, or with no record, the train step
\* fails and has stored none of model, encoders, feature_cols, auc_score,
\* feature_importances.
C8_NoArtifactOnFailure ==
    (OneClassOrEmpty(wfdata) /\ step \notin {"start", "train"}) =>
        /\ step = "failed"
        /\ DOMAIN self \cap {"model", "encoders", "feature_cols", "auc_score",
                             "feature_importances"} = {}

\* a failed train step on a population of one class that passed the split
C8_Witness ==
    /\ step = "failed"
    /\ OneClassOrEmpty(wfdata)
    /\ Population(wfdata) # {}
    /\ Has("split")

(***************************************************************************)
(* Properties of the scenario app (SpecApp)                                *)
(***************************************************************************)
Called == call # <<>>

\* the encoder of the loaded artifact for a column
LoadedEncoder(col) == cache[1].encoders[col]

Fitted(col) == Range(LoadedEncoder(col).classes_)

\* the code the fitted encoder gives a fitted label: its place in sorted order
CodeOf(col, label) ==
    Cardinality({i \in DOMAIN Vocabulary :
                    /\ Vocabulary[i] \in Fitted(col)
                    /\ i < (CHOOSE j \in DOMAIN Vocabulary : Vocabulary[j] = label)})

\* the value the call's mapping holds for a column ("Unknown" when absent)
Given(col) ==
    IF col \in DOMAIN call[1].features THEN call[1].features[col] ELSE "Unknown"

\* C1: every value not seen at fit time is encoded as the code of "Unknown" when
\* "Unknown" was fitted and as 0 otherwise; the result is always a code.
C1_UnseenFallsBack ==
    Called =>
        \A i \in DOMAIN feature_cols :
            LET c == feature_cols[i]
            IN /\ call[1].X[i] \in Nat
               /\ Given(c) \notin Fitted(c) =>
                     call[1].X[i] = IF "Unknown" \in Fitted(c)
                                    THEN CodeOf(c, "Unknown") ELSE 0

\* "Tile" scored by an encoder fitted on Metal, Unknown, Wood gets the code of
\* "Unknown"; in the same call a column fitted without "Unknown" gets 0
C1_Witness ==
    /\ Called
    /\ \E i \in DOMAIN feature_cols :
          /\ LoadedEncoder(feature_cols[i]).classes_ = <<"Metal", "Unknown", "Wood">>
          /\ Given(feature_cols[i]) = "Tile"
          /\ call[1].X[i] = 1
    /\ \E i \in DOMAIN feature_cols :
          /\ "Unknown" \notin Fitted(feature_cols[i])
          /\ Given(feature_cols[i]) = "Tile"
          /\ call[1].X[i] = 0

\* C3: the vector predict_destruction builds has one entry per column of
\* feature_cols, the i-th being the i-th column's encoding of the mapping's value
\* for that column, "Unknown" when the mapping lacks the column.
C3_VectorPerColumn ==
    Called =>
        /\ DOMAIN call[1].X = 1..Len(cache[1].feature_cols)
        /\ Len(cache[1].feature_cols) = 12
        /\ \A i \in DOMAIN call[1].X :
              LET c == cache[1].feature_cols[i]
              IN call[1].X[i] =
                    encode_feature(IF c \in DOMAIN call[1].features
                                   THEN call[1].features[c] ELSE "Unknown",
                                   cache[1].encoders[c], c)

\* an empty mapping scored
C3_Witness ==
    /\ Called
    /\ DOMAIN call[1].features = {}
    /\ Len(call[1].X) = 12

HasPrediction == "prediction_result" \in DOMAIN session_state

\* C9: with no successful run, or a failed retrieval, load_model returned the
\* all-None tuple and the script stopped in the no-model state; no prediction was
\* made without a model and no script run ended in an exception.
C9_NoModelStops ==
    /\ page \in {"none", "no_model", "form", "result", "rerun"}
    /\ (cache # <<>> /\ load_path \in {"no_run", "error"}) =>
          /\ cache[1] = AllNone
          /\ page \in {"none", "no_model"}
          /\ ~HasPrediction
          /\ ~Called
    /\ (cache # <<>> /\ load_path = "ok") => cache[1].model # None
    /\ (cache # <<>> /\ latest_run = None) => cache[1] = AllNone
    /\ (Called \/ HasPrediction) => (cache # <<>> /\ cache[1].model # None)
    /\ page = "result" => HasPrediction
    /\ page = "no_model" => (cache # <<>> /\ cache[1].model = None)

\* the script stopped without a model although a successful run exists
C9_Witness ==
    /\ page = "no_model"
    /\ cache = <<AllNone>>
    /\ load_path = "error"
    /\ latest_run # None

ArtifactsDiffer ==
    /\ HasPrediction
    /\ latest_run # None
    /\ latest_run.id # cache[1].run_id
    /\ ~RatioEq(predict_destruction(latest_run.data.model, latest_run.data.encoders,
                                    latest_run.data.feature_cols,
                                    session_state["prediction_features"]).value.proba,
                session_state["prediction_result"])

Ended == step \in {"end", "done", "failed"}

\* the part of a run's outcome the evaluation reports
Reported(s, l) ==
    [split |-> IF "split" \in DOMAIN l THEN l["split"] ELSE Unset,
     auc_score |-> IF "auc_score" \in DOMAIN s THEN s["auc_score"] ELSE Unset,
     feature_importances |->
        IF "feature_importances" \in DOMAIN s THEN s["feature_importances"] ELSE Unset]

\* the rows of class y in a part of the frame
InPart(part, y) == Sum(part, {k \in Kinds : Target(k) = y})

Rendered == step # "start"

\* the first word of a date string: its first run of characters other than space
IsFirstWord(str, a, b) ==
    /\ a <= b
    /\ \A i \in 1..(a - 1) : str[i] = " "
    /\ \A i \in a..b : str[i] # " "
    /\ b = Len(str) \/ str[b + 1] = " "

\* word is month-day-year: exactly two hyphens; the key is year, hyphen, and the
\* month with a leading zero when it is one character
IsMonthKeyOf(key, word) ==
    \E i, j \in DOMAIN word :
        /\ i < j
        /\ {x \in DOMAIN word : word[x] = "-"} = {i, j}
        /\ LET month == SubSeq(word, 1, i - 1)
               year == SubSeq(word, j + 1, Len(word))
           IN key = year \o <<"-">> \o
                       (IF Len(month) = 0 THEN <<"0", "0">>
                        ELSE IF Len(month) = 1 THEN <<"0">> \o month
                        ELSE month)

Splittable(date_str) ==
    /\ date_str # None
    /\ \E a, b \in DOMAIN date_str.str :
          /\ IsFirstWord(date_str.str, a, b)
          /\ Cardinality({x \in a..b : date_str.str[x] = "-"}) = 2

\* where the incident named i appears in the card: the (key, position) pairs
Places(i) ==
    LET by_month == self["html"].data.incidents_by_month
    IN {pl \in UNION {{<<k, n>> : n \in DOMAIN by_month[k]} : k \in DOMAIN by_month} :
          by_month[pl[1]][pl[2]].incident_name = i}

\* C13: the start step stores the card whatever the dates are; a row with a location
\* whose date is a month-day-year string appears exactly once, under the key
\* YYYY-MM of its date; a row without a location, or with an empty or unsplittable
\* date, appears nowhere; inside a bucket no row comes after a row of a later
\* start date.
C13_BadDatesSkipped ==
    Rendered =>
        /\ "html" \in DOMAIN self
        /\ \A i \in DOMAIN incidents :
              IF HasLocation(incidents[i]) /\ Splittable(incidents[i].date)
              THEN /\ Cardinality(Places(i)) = 1
                   /\ \A pl \in Places(i) :
                         \E a, b \in DOMAIN incidents[i].date.str :
                             /\ IsFirstWord(incidents[i].date.str, a, b)
                             /\ IsMonthKeyOf(pl[1], SubSeq(incidents[i].date.str, a, b))
              ELSE Places(i) = {}
        /\ LET by_month == self["html"].data.incidents_by_month
           IN \A k \in DOMAIN by_month :
                 /\ by_month[k] # <<>>
                 /\ \A m, n \in DOMAIN by_month[k] :
                       m < n =>
                          ~DateBefore(incidents[by_month[k][n].incident_name].date,
                                      incidents[by_month[k][m].incident_name].date)

\* a card rendered from a row with no date and two rows of January 2020, one of
\* them with a one-digit month: the two are in the bucket "2020-01", the earlier
\* date first
C13_Witness ==
    /\ Rendered
    /\ step = "train"
    /\ \E i \in DOMAIN incidents :
          incidents[i].date = None /\ HasLocation(incidents[i])
    /\ LET by_month == self["html"].data.incidents_by_month
           key == <<"2", "0", "2", "0", "-", "0", "1">>
       IN /\ DOMAIN by_month = {key}
          /\ Len(by_month[key]) = 2
          /\ by_month[key][1].date = SubSeq(Date1, 1, 10)
          /\ by_month[key][2].date = Date3

(***************************************************************************)
(* The county selection (SpecMap)                                          *)
(***************************************************************************)
\* the county whose marker is nearest to the point the map returned
NearestCounty ==
    CHOOSE c \in CountyNames :
        ClosestFrom(1, last_object_clicked, Infinity, c).closest_county = c

NearestIsNear ==
    ClosestFrom(1, last_object_clicked, Infinity, DefaultCounty).min_dist < HalfSquared

\* C14: once the rerun a click on the map started has run, the county selected
\* is the county nearest to the click and the run has asked for no further rerun.
C14_MapClickSelectsCounty ==
    (rerun_count >= 1 /\ last_object_clicked # None /\ NearestIsNear) =>
        /\ selected_county = NearestCounty
        /\ page # "rerun"

\* a click on the Orange marker with Los Angeles selected: after the reruns it
\* started, Los Angeles is still selected and another rerun is asked for
MapClickLoops ==
    /\ rerun_count = MaxReruns
    /\ page = "rerun"
    /\ selected_county = DefaultCounty
    /\ last_object_clicked = [lat |-> 337175, lng |-> -1178311]

====
